---------------------------- MODULE Spec2Model ----------------------------
(***************************************************************************)
(* Model of src/main.py (md-deepl-scb): the masking / unmasking pipeline   *)
(* that converts a Markdown + TeX document into a translated Scrapbox page.*)
(*                                                                         *)
(* A text is a sequence of one-character strings.  Every regular           *)
(* expression of the source is modelled by an operator that performs the   *)
(* same leftmost, backtracking match on such a sequence; str.replace is    *)
(* modelled as the left-to-right non-overlapping replacement it is.        *)
(***************************************************************************)
EXTENDS Integers, Sequences, FiniteSets, TLC

VARIABLES
    pc,              \* position in main(), or in the driver of one function
    args,            \* [debug, no_copy]: the command line flags
    parts,           \* the pieces the input text is assembled from
    src,             \* the input text: the file read by main, the argument of a call
    t,               \* the document buffer
    ref_mask_dict,   \* insertion-ordered dict: sequence of [mask, value]
    math_mask_dict,  \* insertion-ordered dict: sequence of [mask, value]
    sent,            \* the text handed to translate(): <<>> or <<text>>
    received,        \* the text translate() returned: <<>> or <<text>>
    passed,          \* [ref, math]: the dict handed to each unmasker, <<>> or <<dict>>
    trace,           \* the stages of main() that have returned, in order
    net,             \* the requests issued so far: sequence of [op, status]
    log,             \* the debug files written: sequence of [file, content]
    clipboard        \* what clip.exe received: <<>> or <<text>>

vars == <<pc, args, parts, src, t, ref_mask_dict, math_mask_dict, sent, received,
          passed, trace, net, log, clipboard>>

-----------------------------------------------------------------------------
(* Characters and character classes of Python's re module.                 *)

NL == "\n"

\* the grave accent U+0060, which a TLA+ string literal cannot hold
BACKTICK == "GRAVE"

Digits == {"0", "1", "2", "3", "4", "5", "6", "7", "8", "9"}

LowerLetters == {"a", "b", "c", "d", "e", "f", "g", "h", "i", "j", "k", "l", "m",
                 "n", "o", "p", "q", "r", "s", "t", "u", "v", "w", "x", "y", "z"}

UpperLetters == {"A", "B", "C", "D", "E", "F", "G", "H", "I", "J", "K", "L", "M",
                 "N", "O", "P", "Q", "R", "S", "T", "U", "V", "W", "X", "Y", "Z"}

\* \s
Space == {" ", "\t", "\n", "\r", "\f"}

\* \w
Word == Digits \cup LowerLetters \cup UpperLetters \cup {"_"}

\* #+
Hash == {"#"}

\* [\d\.]
DigitDot == Digits \cup {"."}

\* re.IGNORECASE folding of one character
Fold(c) ==
    CASE c = "A" -> "a" [] c = "B" -> "b" [] c = "C" -> "c" [] c = "D" -> "d"
      [] c = "E" -> "e" [] c = "F" -> "f" [] c = "G" -> "g" [] c = "H" -> "h"
      [] c = "I" -> "i" [] c = "J" -> "j" [] c = "K" -> "k" [] c = "L" -> "l"
      [] c = "M" -> "m" [] c = "N" -> "n" [] c = "O" -> "o" [] c = "P" -> "p"
      [] c = "Q" -> "q" [] c = "R" -> "r" [] c = "S" -> "s" [] c = "T" -> "t"
      [] c = "U" -> "u" [] c = "V" -> "v" [] c = "W" -> "w" [] c = "X" -> "x"
      [] c = "Y" -> "y" [] c = "Z" -> "z" [] OTHER -> c

-----------------------------------------------------------------------------
(* Generic text helpers.  "The first position in lo..hi where P holds" is  *)
(* written IF \E j : P(j) THEN CHOOSE j : P(j) /\ \A k < j : ~P(k) ELSE 0  *)
(* throughout: the position at which a left-to-right scan stops.           *)

\* t[i:] of Python, with a 1-based i
From(s, i) == SubSeq(s, i, Len(s))

\* whether the literal p stands in s at position i
At(s, i, p) ==
    /\ i >= 1
    /\ i + Len(p) - 1 <= Len(s)
    /\ \A k \in 1..Len(p) : s[i + k - 1] = p[k]

\* the same under re.IGNORECASE
AtFold(s, i, p) ==
    /\ i >= 1
    /\ i + Len(p) - 1 <= Len(s)
    /\ \A k \in 1..Len(p) : Fold(s[i + k - 1]) = Fold(p[k])

\* str.find(p, i): the first occurrence of p at or after i, or 0
Find(s, p, i) ==
    LET hi == Len(s) - Len(p) + 1
    IN IF \E j \in i..hi : s[j] = p[1] /\ At(s, j, p)
       THEN CHOOSE j \in i..hi : At(s, j, p) /\ \A k \in i..(j - 1) : ~At(s, k, p)
       ELSE 0

\* the first position >= i that holds character c, or 0
FindChar(s, c, i) ==
    IF \E j \in i..Len(s) : s[j] = c
    THEN CHOOSE j \in i..Len(s) : s[j] = c /\ \A k \in i..(j - 1) : s[k] # c
    ELSE 0

\* the end of the maximal run of characters of class C that starts at i
\* (i - 1 when the run is empty): a greedy C*
RunEnd(s, C, i) ==
    IF \E j \in i..Len(s) : s[j] \notin C
    THEN (CHOOSE j \in i..Len(s) : s[j] \notin C /\ \A k \in i..(j - 1) : s[k] \in C) - 1
    ELSE Len(s)

\* the last position of the line that position i is on (before its newline)
LineEnd(s, i) ==
    LET nl == FindChar(s, NL, i)
    IN IF nl = 0 THEN Len(s) ELSE nl - 1

Contains(s, p) == Find(s, p, 1) # 0

\* str.replace(old, new): every non-overlapping occurrence, left to right
RECURSIVE replace_from(_, _, _, _)
replace_from(s, old, new, pos) ==
    LET j == Find(s, old, pos)
    IN IF j = 0 THEN From(s, pos)
       ELSE SubSeq(s, pos, j - 1) \o new \o replace_from(s, old, new, j + Len(old))

replace(s, old, new) == replace_from(s, old, new, 1)

-----------------------------------------------------------------------------
(* extract_deco: re.sub(r"\*\*(.+?)\*\*", r"\1", t)                        *)

BOLD == <<"*", "*">>

\* the position of the closing ** of a match that opens at i, or 0:
\* (.+?) is the shortest non-empty run without a newline that a ** follows
deco_close(s, i) ==
    LET j == Find(s, BOLD, i + 3)
    IN IF At(s, i, BOLD) /\ j # 0 /\ j - 1 <= LineEnd(s, i + 2) THEN j ELSE 0

\* the start of the first match at or after pos, or 0
deco_next(s, pos) ==
    IF \E k \in pos..Len(s) : deco_close(s, k) # 0
    THEN CHOOSE k \in pos..Len(s) :
             deco_close(s, k) # 0 /\ \A j \in pos..(k - 1) : deco_close(s, j) = 0
    ELSE 0

RECURSIVE deco_sub(_, _)
deco_sub(s, pos) ==
    LET i == deco_next(s, pos)
        j == deco_close(s, i)
    IN IF i = 0 THEN From(s, pos)
       ELSE SubSeq(s, pos, i - 1) \o SubSeq(s, i + 2, j - 1) \o deco_sub(s, j + 2)

extract_deco(s) == deco_sub(s, 1)

-----------------------------------------------------------------------------
(* mask_ref / unmask_ref                                                   *)

REF == <<"#", "R", "E", "F", "#">>

REFERENCE == <<"R", "e", "f", "e", "r", "e", "n", "c", "e">>

\* the last position of a match of #+\s+References? (IGNORECASE) that starts
\* at i, or 0.  The three parts are over disjoint character classes, so the
\* greedy runs are the only way to match.
ref_heading_end(s, i) ==
    LET h == RunEnd(s, Hash, i)
        w == RunEnd(s, Space, h + 1)
        e == w + Len(REFERENCE)
    IN IF h >= i /\ w >= h + 1 /\ AtFold(s, w + 1, REFERENCE)
       THEN (IF e + 1 <= Len(s) /\ Fold(s[e + 1]) = "s" THEN e + 1 ELSE e)
       ELSE 0

\* whether #+\s+\w+ matches at i
sec_heading_at(s, i) ==
    LET h == RunEnd(s, Hash, i)
        w == RunEnd(s, Space, h + 1)
    IN h >= i /\ w >= h + 1 /\ w + 1 <= Len(s) /\ s[w + 1] \in Word

\* re.search(r"#+\s+References?", t, re.IGNORECASE): start of the leftmost match, or 0
ref_search(s) ==
    IF \E i \in 1..Len(s) : ref_heading_end(s, i) # 0
    THEN CHOOSE i \in 1..Len(s) :
             ref_heading_end(s, i) # 0 /\ \A j \in 1..(i - 1) : ref_heading_end(s, j) = 0
    ELSE 0

\* start + re.search(r"#+\s+\w+", t[start:]).start(), or len(t): as a 1-based
\* position, the first character after the section body
ref_section_end(s, start) ==
    IF \E i \in start..Len(s) : sec_heading_at(s, i)
    THEN CHOOSE i \in start..Len(s) :
             sec_heading_at(s, i) /\ \A j \in start..(i - 1) : ~sec_heading_at(s, j)
    ELSE Len(s) + 1

mask_ref(s) ==
    LET m == ref_search(s)
        start == ref_heading_end(s, m) + 1
        end == ref_section_end(s, start)
    IN IF m = 0
       THEN [masked |-> s, dict |-> <<>>]
       ELSE [masked |-> SubSeq(s, 1, start - 1) \o REF \o From(s, end),
             dict |-> <<[mask |-> REF, value |-> SubSeq(s, start, end - 1)]>>]

\* for mask, value in d.items(): t = t.replace(mask, value)   (entries lo..hi;
\* an empty text stays empty, the masks being non-empty)
RECURSIVE unmask_loop(_, _, _, _)
unmask_loop(s, d, lo, hi) ==
    IF lo > hi THEN s
    ELSE IF lo = hi THEN replace(s, d[lo].mask, d[lo].value)
    ELSE LET mid == (lo + hi) \div 2
             half == unmask_loop(s, d, lo, mid)
         IN IF half = <<>> THEN half ELSE unmask_loop(half, d, mid + 1, hi)

unmask_ref(s, d) == unmask_loop(s, d, 1, Len(d))

-----------------------------------------------------------------------------
(* mask_math / unmask_math                                                 *)

DOLLAR == "$"

\* counter = 1
FirstCounter == 1

\* the minimum field width of {counter:03d}
MaskWidth == 3

DigitChar(d) ==
    <<"0", "1", "2", "3", "4", "5", "6", "7", "8", "9">>[d + 1]

\* str(n) for n >= 0
RECURSIVE decimal(_)
decimal(n) ==
    IF n < 10 THEN <<DigitChar(n)>>
    ELSE decimal(n \div 10) \o <<DigitChar(n % 10)>>

\* f"{n:03d}": zero-padded on the left to at least MaskWidth digits
zero_pad(n) ==
    LET d == decimal(n)
    IN [k \in 1..(IF Len(d) < MaskWidth THEN MaskWidth - Len(d) ELSE 0) |-> "0"] \o d

\* the key formatted without its zero padding
eq_mask_unpadded(counter) == <<"E", "Q">> \o decimal(counter)

\* f"EQ{counter:03d}"
eq_mask(counter) == <<"E", "Q">> \o zero_pad(counter)

\* newline.sub(r" ", body)
newline_sub(body) == [k \in 1..Len(body) |-> IF body[k] = NL THEN " " ELSE body[k]]

\* mask_math storing the math source as it stood, between its delimiters
math_template_as_source(math) == <<DOLLAR>> \o math \o <<DOLLAR>>

\* f"[$ {math} ]"
math_template(math) == <<"[", "$", " ">> \o math \o <<" ", "]">>

\* \${1,2}, greedy: how many $ it takes at i (0: none)
dollars_at(s, i) ==
    IF i < 1 \/ i > Len(s) \/ s[i] # DOLLAR THEN 0
    ELSE IF i + 1 <= Len(s) /\ s[i + 1] = DOLLAR THEN 2
    ELSE 1

\* the match of \${1,2}(.*?)\${1,2} (DOTALL) that starts at i with an opener
\* of `open` $, as [ok, from, to, last]: the body s[from..to] is the shortest
\* run that a $ follows, the closer takes two $ when it can and ends at last
math_try(s, i, open) ==
    LET j == FindChar(s, DOLLAR, i + open)
    IN [ok |-> j # 0, from |-> i + open, to |-> j - 1, last |-> j + dollars_at(s, j) - 1]

\* the match that starts at i: the opener is tried with two $ first, then with one
math_match(s, i) ==
    IF dollars_at(s, i) = 0 THEN [ok |-> FALSE, from |-> 0, to |-> 0, last |-> 0]
    ELSE IF dollars_at(s, i) = 2 /\ math_try(s, i, 2).ok THEN math_try(s, i, 2)
    ELSE math_try(s, i, 1)

\* the start of the first match at or after pos, or 0
math_next(s, pos) ==
    IF \E k \in pos..Len(s) : math_match(s, k).ok
    THEN CHOOSE k \in pos..Len(s) :
             math_match(s, k).ok /\ \A j \in pos..(k - 1) : ~math_match(s, j).ok
    ELSE 0

\* one round of pattern.sub: copy the text up to the next match and call repl
\* on it; st is [pos, counter, out, dict, done]
math_step(s, st) ==
    LET i == math_next(s, st.pos)
        m == math_match(s, i)
        mask == eq_mask(st.counter)
        math == newline_sub(SubSeq(s, m.from, m.to))
    IN IF st.done THEN st
       ELSE IF i = 0
       THEN [st EXCEPT !.out = st.out \o From(s, st.pos), !.done = TRUE]
       ELSE [pos |-> m.last + 1,
             counter |-> st.counter + 1,
             out |-> st.out \o SubSeq(s, st.pos, i - 1) \o mask,
             dict |-> Append(st.dict, [mask |-> mask, value |-> math_template(math)]),
             done |-> FALSE]

\* pattern.sub(repl, t): up to n rounds of math_step, until the text is exhausted
RECURSIVE math_sub(_, _, _)
math_sub(s, st, n) ==
    IF n = 0 THEN st
    ELSE IF n = 1 THEN math_step(s, st)
    ELSE LET half == math_sub(s, st, n \div 2)
         IN IF half.done THEN half ELSE math_sub(s, half, n - (n \div 2))

mask_math(s) ==
    LET st == math_sub(s, [pos |-> 1, counter |-> FirstCounter, out |-> <<>>,
                           dict |-> <<>>, done |-> FALSE],
                       (Len(s) \div 2) + 1)
    IN [masked |-> st.out, dict |-> st.dict]

unmask_math(s, d) == unmask_loop(s, d, 1, Len(d))

-----------------------------------------------------------------------------
(* escape_brackets: re.sub of \[(.*?)\] by BACKTICK [\1] BACKTICK          *)

\* the position of the ] that closes a match opening at i, or 0: the first ]
\* after i, provided no newline stands before it
bracket_close(s, i) ==
    LET j == FindChar(s, "]", i + 1)
    IN IF i >= 1 /\ i <= Len(s) /\ s[i] = "[" /\ j # 0 /\ j - 1 <= LineEnd(s, i + 1)
       THEN j ELSE 0

\* the start of the first match at or after pos, or 0
bracket_next(s, pos) ==
    IF \E k \in pos..Len(s) : bracket_close(s, k) # 0
    THEN CHOOSE k \in pos..Len(s) :
             bracket_close(s, k) # 0 /\ \A j \in pos..(k - 1) : bracket_close(s, j) = 0
    ELSE 0

RECURSIVE bracket_sub(_, _)
bracket_sub(s, pos) ==
    LET i == bracket_next(s, pos)
        j == bracket_close(s, i)
    IN IF i = 0 THEN From(s, pos)
       ELSE SubSeq(s, pos, i - 1) \o <<BACKTICK, "[">> \o SubSeq(s, i + 1, j - 1)
                \o <<"]", BACKTICK>> \o bracket_sub(s, j + 1)

\* escape_brackets leaving the brackets as they are
escape_nothing(s) == s

escape_brackets(s) == bracket_sub(s, 1)

-----------------------------------------------------------------------------
(* replace_headings: re.sub(r"^[\d\.]*(#+)\s+(.+?)\n", repl, t)            *)

\* max(1, 4 - level_md)
level_scb(level_md) == IF 4 - level_md > 1 THEN 4 - level_md ELSE 1

\* whether (.+?)\n can match right after a \s+ that ends at k
title_after(s, k) == k + 1 <= Len(s) /\ s[k + 1] # NL /\ FindChar(s, NL, k + 2) # 0

\* the match of [\d\.]*(#+)\s+(.+?)\n that starts at i, as
\* [ok, level, from, to, last]: the title is s[from..to], last is the newline.
\* \s+ is greedy and gives characters back until a title (a non-empty run
\* without a newline, followed by a newline) can start right after it.
heading_match(s, i) ==
    LET p == RunEnd(s, DigitDot, i)
        h == RunEnd(s, Hash, p + 1)
        w == RunEnd(s, Space, h + 1)
        e == IF \E k \in (h + 1)..w : title_after(s, k)
             THEN CHOOSE k \in (h + 1)..w :
                      title_after(s, k) /\ \A j \in (k + 1)..w : ~title_after(s, j)
             ELSE 0
        nl == FindChar(s, NL, e + 2)
    IN IF i >= 1 /\ h >= p + 1 /\ w >= h + 1 /\ e # 0
       THEN [ok |-> TRUE, level |-> h - p, from |-> e + 1, to |-> nl - 1, last |-> nl]
       ELSE [ok |-> FALSE, level |-> 0, from |-> 0, to |-> 0, last |-> 0]

\* f"[{'*' * level_scb} {title}]"
heading_scb(level_md, title) ==
    <<"[">> \o [k \in 1..level_scb(level_md) |-> "*"] \o <<" ">> \o title \o <<"]">>

\* whether ^ matches at position i: the pattern is compiled without
\* re.MULTILINE, so only at the start of the text
caret_at(s, i) == i = 1

\* the start of the first match at or after pos, or 0
heading_next(s, pos) ==
    IF \E k \in pos..Len(s) : caret_at(s, k) /\ heading_match(s, k).ok
    THEN CHOOSE k \in pos..Len(s) :
             /\ caret_at(s, k) /\ heading_match(s, k).ok
             /\ \A j \in pos..(k - 1) : ~(caret_at(s, j) /\ heading_match(s, j).ok)
    ELSE 0

RECURSIVE heading_sub(_, _)
heading_sub(s, pos) ==
    LET i == heading_next(s, pos)
        m == heading_match(s, i)
    IN IF i = 0 THEN From(s, pos)
       ELSE SubSeq(s, pos, i - 1) \o heading_scb(m.level, SubSeq(s, m.from, m.to))
                \o heading_sub(s, m.last + 1)

replace_headings(s) == heading_sub(s, 1)

-----------------------------------------------------------------------------
(* replace_images: re.sub of  ! BACKTICK [ (.*?) ] BACKTICK ( (.*?) )      *)

IMG_OPEN == <<"!", BACKTICK, "[">>

IMG_MID == <<"]", BACKTICK, "(">>

\* the status_code of a successful response
HTTP_OK == 200

\* a status check that lets every response through
status_never_failed(status) == FALSE

\* response.status_code != 200
status_failed(status) == status # HTTP_OK

\* the ) that ends the url group opened by the IMG_MID at p, or 0: the first
\* ) after it, provided no newline stands before it
image_url_close(s, p) ==
    LET c == FindChar(s, ")", p + 3)
    IN IF c # 0 /\ c - 1 <= LineEnd(s, p + 3) THEN c ELSE 0

\* whether the alt group of a match opening at i can end before position q
image_mid_at(s, i, q) ==
    At(s, q, IMG_MID) /\ q - 1 <= LineEnd(s, i + 3) /\ image_url_close(s, q) # 0

\* the match that starts at i, as [ok, from, to, last]: src is s[from..to]
image_match(s, i) ==
    LET p == IF \E q \in (i + 3)..Len(s) : image_mid_at(s, i, q)
             THEN CHOOSE q \in (i + 3)..Len(s) :
                      image_mid_at(s, i, q) /\ \A j \in (i + 3)..(q - 1) : ~image_mid_at(s, i, j)
             ELSE 0
    IN IF At(s, i, IMG_OPEN) /\ p # 0
       THEN [ok |-> TRUE, from |-> p + 3, to |-> image_url_close(s, p) - 1,
             last |-> image_url_close(s, p)]
       ELSE [ok |-> FALSE, from |-> 0, to |-> 0, last |-> 0]

\* the start of the first match at or after pos, or 0
image_next(s, pos) ==
    IF \E k \in pos..Len(s) : image_match(s, k).ok
    THEN CHOOSE k \in pos..Len(s) :
             image_match(s, k).ok /\ \A j \in pos..(k - 1) : ~image_match(s, j).ok
    ELSE 0

\* how many matches pattern.sub visits when every request succeeds
RECURSIVE image_count(_, _)
image_count(s, pos) ==
    LET i == image_next(s, pos)
    IN IF i = 0 THEN 0 ELSE 1 + image_count(s, image_match(s, i).last + 1)

GYAZO_I == <<"i", ".", "g", "y", "a", "z", "o", ".", "c", "o", "m">>

GYAZO == <<"g", "y", "a", "z", "o", ".", "c", "o", "m">>

PNG == <<".", "p", "n", "g">>

JPG == <<".", "j", "p", "g">>

\* .url.replace("i.gyazo.com", "gyazo.com").replace(".png", "").replace(".jpg", "")
gyazo_url(url) == replace(replace(replace(url, GYAZO_I, GYAZO), PNG, <<>>), JPG, <<>>)

\* pattern.sub(repl, t) from pos on, the k-th requests.get answered with
\* status[k] and the k-th upload_image with urls[k]; exit(1) at the first
\* status that is not 200.  [ok, out, calls]: calls are the requests issued.
RECURSIVE image_sub(_, _, _, _, _)
image_sub(s, pos, k, status, urls) ==
    LET i == image_next(s, pos)
        m == image_match(s, i)
        get == [op |-> "get", status |-> status[k]]
        upload == [op |-> "upload", status |-> HTTP_OK]
        rest == image_sub(s, m.last + 1, k + 1, status, urls)
    IN IF i = 0
       THEN [ok |-> TRUE, out |-> From(s, pos), calls |-> <<>>]
       ELSE IF status_failed(status[k])
       THEN [ok |-> FALSE, out |-> <<>>, calls |-> <<get>>]
       ELSE [ok |-> rest.ok,
             out |-> IF rest.ok
                     THEN SubSeq(s, pos, i - 1) \o <<"[">> \o gyazo_url(urls[k])
                              \o <<"]">> \o rest.out
                     ELSE <<>>,
             calls |-> <<get, upload>> \o rest.calls]

replace_images(s, status, urls) == image_sub(s, 1, 1, status, urls)

-----------------------------------------------------------------------------
(* Inputs.  A text is assembled from at most Max...Parts pieces.           *)

MaxDocParts == 2

MaxRefParts == 3

MaxMathParts == 3

MaxHeadParts == 3

\* the sequences of at most n members of S
UpTo(S, n) == UNION {[1..k -> S] : k \in 0..n}

\* the concatenation of pieces ps[lo..hi]
RECURSIVE join(_, _, _)
join(ps, lo, hi) ==
    IF lo > hi THEN <<>>
    ELSE IF lo = hi THEN ps[lo]
    ELSE LET mid == (lo + hi) \div 2
         IN join(ps, lo, mid) \o join(ps, mid + 1, hi)

Text(ps) == join(ps, 1, Len(ps))

\* "# Title\n\nSee $x+y$ for details.\n\n# References\n[1] Foo, 2020."
TitleDoc ==
  <<"#", " ", "T", "i", "t", "l", "e", NL, NL, "S", "e", "e", " ", "$", "x", "+", "y",
      "$", " ", "f", "o", "r", " ", "d", "e", "t", "a", "i", "l", "s", ".", NL, NL,
      "#", " ", "R", "e", "f", "e", "r", "e", "n", "c", "e", "s", NL, "[", "1", "]",
      " ", "F", "o", "o", ",", " ", "2", "0", "2", "0", ".">>

\* "![a](u)\n"
ImagePart == <<"!", "[", "a", "]", "(", "u", ")", NL>>

\* "**b** [2]\n"
BoldPart == <<"*", "*", "b", "*", "*", " ", "[", "2", "]", NL>>

\* "## H $$y$$\n"
SectionPart == <<"#", "#", " ", "H", " ", "$", "$", "y", "$", "$", NL>>

DocParts == {TitleDoc, ImagePart, BoldPart, SectionPart}

\* pieces of documents with References sections
RefHeading == <<"#", " ", "R", "e", "f", "e", "r", "e", "n", "c", "e", "s">>

RefHeadingLower == <<NL, "#", "#", " ", "r", "e", "f", "e", "r", "e", "n", "c", "e">>

RefBody == <<NL, "[", "1", "]", " ", "F", "o", "o", NL>>

NextHeading == <<"#", "#", " ", "I", "n", "t", "r", "o", NL>>

MidLineHash == <<" ", "C", "#", " ", "i", "n", NL>>

RefParts == {RefHeading, RefHeadingLower, RefBody, NextHeading, MidLineHash, REF}

\* pieces of texts with math
Inline == <<"$", "a", "$">>

Block == <<"$", "$", "b", NL, "c", "$", "$">>

Plain == <<" ", "x", " ">>

MathParts == {Inline, Block, Plain, <<DOLLAR>>, eq_mask(1)}

\* lines of texts with headings
HeadParts == {<<"#", " ", "A", NL>>,
              <<"1", ".", "2", "#", "#", " ", "B", NL>>,
              <<"#", "#", "#", "#", "#", " ", "C", NL>>,
              <<"x", NL>>,
              <<"#", "#", "#", " ", "D">>}

\* what the translation backend may answer to text s: s itself, or s with
\* its letters lower-cased (the backend is free to change the case of tokens)
Translations(s) == {s, [k \in 1..Len(s) |-> Fold(s[k])]}

\* status codes of the translation backend and of the image server
TranslateStatus == {HTTP_OK, 403}

ImageStatus == {HTTP_OK, 404}

\* urls the image host may answer an upload with
UploadUrls == {<<"i", ".", "g", "y", "a", "z", "o", ".", "c", "o", "m", "/", "a", ".", "p", "n", "g">>,
               <<"i", ".", "g", "y", "a", "z", "o", ".", "c", "o", "m", "/", "b", ".", "j", "p", "g">>}

-----------------------------------------------------------------------------
(* main(): one action per statement of lines 163-195.                      *)

STAGES == <<"extract_deco", "mask_ref", "mask_math", "translate", "unmask_ref",
            "escape_brackets", "unmask_math", "replace_headings", "replace_images",
            "copy">>

\* main with escape_brackets and unmask_ref in each other's place
next_stage_swapped(p) ==
    CASE p = "translate" -> "escape_brackets"
      [] p = "escape_brackets" -> "unmask_ref"
      [] p = "unmask_ref" -> "unmask_math"
      [] OTHER -> LET k == CHOOSE j \in 1..Len(STAGES) : STAGES[j] = p
                  IN IF k = Len(STAGES) THEN "done" ELSE STAGES[k + 1]

\* the statement that follows stage p in main()
next_stage(p) ==
    LET k == CHOOSE j \in 1..Len(STAGES) : STAGES[j] = p
    IN IF k = Len(STAGES) THEN "done" ELSE STAGES[k + 1]

\* for mask, value in d.items(): f.write(f"{mask}: {value}\n")
RECURSIVE dict_dump(_, _)
dict_dump(d, k) ==
    IF k > Len(d) THEN <<>>
    ELSE d[k].mask \o <<":", " ">> \o d[k].value \o <<NL>> \o dict_dump(d, k + 1)

\* the files written by an `if args.debug:` block
debug_files(files) == IF args.debug THEN log \o files ELSE log

Start(texts) ==
    /\ parts \in texts
    /\ src = Text(parts)
    /\ t = src
    /\ ref_mask_dict = <<>>
    /\ math_mask_dict = <<>>
    /\ sent = <<>>
    /\ received = <<>>
    /\ passed = [ref |-> <<>>, math |-> <<>>]
    /\ trace = <<>>
    /\ net = <<>>
    /\ log = <<>>
    /\ clipboard = <<>>

Init ==
    /\ pc = STAGES[1]
    /\ args \in [debug : BOOLEAN, no_copy : BOOLEAN]
    /\ Start(UpTo(DocParts, MaxDocParts))

\* the stage at pc has returned
Returned == /\ trace' = Append(trace, pc)
            /\ pc' = next_stage(pc)

\* exit(1)
Exit == /\ pc' = "aborted"
        /\ UNCHANGED trace

Main_extract_deco ==
    /\ pc = "extract_deco"
    /\ t' = extract_deco(t)
    /\ Returned
    /\ UNCHANGED <<args, parts, src, ref_mask_dict, math_mask_dict, sent, received,
                   passed, net, log, clipboard>>

Main_mask_ref ==
    /\ pc = "mask_ref"
    /\ LET r == mask_ref(t)
       IN t' = r.masked /\ ref_mask_dict' = r.dict
    /\ Returned
    /\ UNCHANGED <<args, parts, src, math_mask_dict, sent, received, passed, net, log,
                   clipboard>>

Main_mask_math ==
    /\ pc = "mask_math"
    /\ LET r == mask_math(t)
       IN t' = r.masked /\ math_mask_dict' = r.dict
    /\ log' = debug_files(<<[file |-> "log/masked.txt", content |-> t'],
                            [file |-> "log/math_mask.txt",
                             content |-> dict_dump(math_mask_dict', 1)],
                            [file |-> "log/ref_mask.txt",
                             content |-> dict_dump(ref_mask_dict, 1)]>>)
    /\ Returned
    /\ UNCHANGED <<args, parts, src, ref_mask_dict, sent, received, passed, net, clipboard>>

Main_translate ==
    /\ pc = "translate"
    /\ \E status \in TranslateStatus, text \in Translations(t) :
          /\ sent' = <<t>>
          /\ net' = Append(net, [op |-> "translate", status |-> status])
          /\ IF status_failed(status)
             THEN Exit /\ UNCHANGED <<t, received, log>>
             ELSE /\ t' = text
                  /\ received' = <<text>>
                  /\ log' = debug_files(<<[file |-> "log/translated.txt", content |-> text]>>)
                  /\ Returned
    /\ UNCHANGED <<args, parts, src, ref_mask_dict, math_mask_dict, passed, clipboard>>

Main_unmask_ref ==
    /\ pc = "unmask_ref"
    /\ t' = unmask_ref(t, ref_mask_dict)
    /\ passed' = [passed EXCEPT !.ref = <<ref_mask_dict>>]
    /\ Returned
    /\ UNCHANGED <<args, parts, src, ref_mask_dict, math_mask_dict, sent, received, net,
                   log, clipboard>>

Main_escape_brackets ==
    /\ pc = "escape_brackets"
    /\ t' = escape_brackets(t)
    /\ Returned
    /\ UNCHANGED <<args, parts, src, ref_mask_dict, math_mask_dict, sent, received,
                   passed, net, log, clipboard>>

Main_unmask_math ==
    /\ pc = "unmask_math"
    /\ t' = unmask_math(t, math_mask_dict)
    /\ passed' = [passed EXCEPT !.math = <<math_mask_dict>>]
    /\ Returned
    /\ UNCHANGED <<args, parts, src, ref_mask_dict, math_mask_dict, sent, received, net,
                   log, clipboard>>

Main_replace_headings ==
    /\ pc = "replace_headings"
    /\ t' = replace_headings(t)
    /\ Returned
    /\ UNCHANGED <<args, parts, src, ref_mask_dict, math_mask_dict, sent, received,
                   passed, net, log, clipboard>>

Main_replace_images ==
    /\ pc = "replace_images"
    /\ \E status \in [1..image_count(t, 1) -> ImageStatus],
          urls \in [1..image_count(t, 1) -> UploadUrls] :
          LET r == replace_images(t, status, urls)
          IN /\ net' = net \o r.calls
             /\ IF r.ok
                THEN /\ t' = r.out
                     /\ log' = debug_files(<<[file |-> "log/unmasked.txt", content |-> t']>>)
                     /\ Returned
                ELSE Exit /\ UNCHANGED <<t, log>>
    /\ UNCHANGED <<args, parts, src, ref_mask_dict, math_mask_dict, sent, received,
                   passed, clipboard>>

\* if not args.no_copy: subprocess.run("clip.exe", input=t...)
Main_copy ==
    /\ pc = "copy"
    /\ clipboard' = IF args.no_copy THEN clipboard ELSE <<t>>
    /\ Returned
    /\ UNCHANGED <<args, parts, src, t, ref_mask_dict, math_mask_dict, sent, received,
                   passed, net, log>>

Next ==
    \/ Main_extract_deco
    \/ Main_mask_ref
    \/ Main_mask_math
    \/ Main_translate
    \/ Main_unmask_ref
    \/ Main_escape_brackets
    \/ Main_unmask_math
    \/ Main_replace_headings
    \/ Main_replace_images
    \/ Main_copy

Spec == Init /\ [][Next]_vars

-----------------------------------------------------------------------------
(* Drivers of single functions: a call of the masker, then of the unmasker *)
(* on its result, then the next call on another text.                      *)

NoArgs == [debug |-> FALSE, no_copy |-> FALSE]

\* a fresh call on the text assembled from pieces ps
Call(ps) ==
    /\ parts' = ps
    /\ src' = Text(ps)
    /\ t' = Text(ps)
    /\ ref_mask_dict' = <<>>
    /\ math_mask_dict' = <<>>
    /\ UNCHANGED <<args, sent, received, passed, trace, net, log, clipboard>>

InitRef == pc = "ref_call" /\ args = NoArgs /\ Start(UpTo(RefParts, MaxRefParts))

Ref_mask ==
    /\ pc = "ref_call"
    /\ pc' = "ref_masked"
    /\ LET r == mask_ref(t)
       IN t' = r.masked /\ ref_mask_dict' = r.dict
    /\ UNCHANGED <<args, parts, src, math_mask_dict, sent, received, passed, trace, net,
                   log, clipboard>>

Ref_unmask ==
    /\ pc = "ref_masked"
    /\ pc' = "ref_unmasked"
    /\ t' = unmask_ref(t, ref_mask_dict)
    /\ UNCHANGED <<args, parts, src, ref_mask_dict, math_mask_dict, sent, received,
                   passed, trace, net, log, clipboard>>

Ref_again ==
    /\ pc = "ref_unmasked"
    /\ pc' = "ref_call"
    /\ \E ps \in UpTo(RefParts, MaxRefParts) : Call(ps)

NextRef == Ref_mask \/ Ref_unmask \/ Ref_again

SpecRef == InitRef /\ [][NextRef]_vars

InitMath == pc = "math_call" /\ args = NoArgs /\ Start(UpTo(MathParts, MaxMathParts))

Math_mask ==
    /\ pc = "math_call"
    /\ pc' = "math_masked"
    /\ LET r == mask_math(t)
       IN t' = r.masked /\ math_mask_dict' = r.dict
    /\ UNCHANGED <<args, parts, src, ref_mask_dict, sent, received, passed, trace, net,
                   log, clipboard>>

Math_unmask ==
    /\ pc = "math_masked"
    /\ pc' = "math_unmasked"
    /\ t' = unmask_math(t, math_mask_dict)
    /\ UNCHANGED <<args, parts, src, ref_mask_dict, math_mask_dict, sent, received,
                   passed, trace, net, log, clipboard>>

Math_again ==
    /\ pc = "math_unmasked"
    /\ pc' = "math_call"
    /\ \E ps \in UpTo(MathParts, MaxMathParts) : Call(ps)

NextMath == Math_mask \/ Math_unmask \/ Math_again

SpecMath == InitMath /\ [][NextMath]_vars

InitHead == pc = "head_call" /\ args = NoArgs /\ Start(UpTo(HeadParts, MaxHeadParts))

Head_replace ==
    /\ pc = "head_call"
    /\ pc' = "head_replaced"
    /\ t' = replace_headings(t)
    /\ UNCHANGED <<args, parts, src, ref_mask_dict, math_mask_dict, sent, received,
                   passed, trace, net, log, clipboard>>

Head_again ==
    /\ pc = "head_replaced"
    /\ pc' = "head_call"
    /\ \E ps \in UpTo(HeadParts, MaxHeadParts) : Call(ps)

NextHead == Head_replace \/ Head_again

SpecHead == InitHead /\ [][NextHead]_vars

\* a text of LongSpans inline spans, each followed by a space: "$a$ $a$ ... "
LongSpans == 1000

LongParts == [k \in 1..(2 * LongSpans) |-> IF k % 2 = 1 THEN Inline ELSE <<" ">>]

InitMathLong ==
    /\ pc = "math_call"
    /\ args = NoArgs
    /\ Start(UpTo(MathParts, MaxMathParts) \cup {LongParts})

SpecMathLong == InitMathLong /\ [][NextMath]_vars

-----------------------------------------------------------------------------
(* Properties.                                                             *)

\* ---- C1 -------------------------------------------------------------------

\* C1: reference round trip.  For every text, unmask_ref applied to the result
\* of mask_ref gives the text back (texts without a References section, with
\* several, and texts that already hold the token #REF# included).
C1_RefRoundTrip == pc = "ref_unmasked" => t = src

\* ---- C2 -------------------------------------------------------------------

\* C2 as stated: math round trip.  For every text, unmask_math applied to the
\* result of mask_math gives the text back.
C2_MathRoundTrip == pc = "math_unmasked" => t = src

\* C2 as amended: unmask_math(mask_math(t)) gives t back exactly when t has no
\* math span; with one span or more the result differs from t, every span
\* coming back as its rendering template and not as its source.
C2_RoundTripOnlyWithoutMath ==
    pc = "math_unmasked" => ((t = src) <=> (math_mask_dict = <<>>))

\* two spans were masked and restored, and the text is not the one given
C2_Witness == pc = "math_unmasked" /\ Len(math_mask_dict) >= 2 /\ t # src

\* ---- C3 -------------------------------------------------------------------

DigitValue(c) == CHOOSE d \in 0..9 : DigitChar(d) = c

RECURSIVE NumberOf(_)
NumberOf(ds) ==
    IF Len(ds) = 0 THEN 0
    ELSE 10 * NumberOf(SubSeq(ds, 1, Len(ds) - 1)) + DigitValue(ds[Len(ds)])

\* key is EQ followed by the decimal digits of k, zero-padded to 3 digits or more
IsKeyOf(key, k) ==
    LET ds == SubSeq(key, 3, Len(key))
    IN /\ Len(key) >= 5
       /\ key[1] = "E" /\ key[2] = "Q"
       /\ \A j \in 1..Len(ds) : ds[j] \in Digits
       /\ NumberOf(ds) = k
       /\ Len(ds) > 3 => ds[1] # "0"

\* how many matches the text holds from pos on
RECURSIVE MatchCount(_, _)
MatchCount(s, pos) ==
    LET i == math_next(s, pos)
    IN IF i = 0 THEN 0 ELSE 1 + MatchCount(s, math_match(s, i).last + 1)

\* s from pos on with its matches replaced, in order, by the keys of d from
\* the k-th on
RECURSIVE Keyed(_, _, _, _)
Keyed(s, pos, k, d) ==
    LET i == math_next(s, pos)
    IN IF i = 0 THEN From(s, pos)
       ELSE SubSeq(s, pos, i - 1) \o d[k].mask \o Keyed(s, math_match(s, i).last + 1, k + 1, d)

\* C3: within one call of mask_math the keys are pairwise distinct and numbered
\* consecutively from EQ001 (zero-padded to at least 3 digits), the k-th match
\* from the left is replaced by the key with counter k, so that the keys stand
\* in the masked buffer in increasing order; every call starts again at 1.
C3_KeysNumbered ==
    pc = "math_masked" =>
        LET d == math_mask_dict
        IN /\ \A k \in 1..Len(d) : IsKeyOf(d[k].mask, k)
           /\ \A j, k \in 1..Len(d) : j # k => d[j].mask # d[k].mask
           /\ Len(d) = MatchCount(src, 1)
           /\ t = Keyed(src, 1, 1, d)
           /\ ~Contains(src, <<"E", "Q">>) =>
                  \A k \in 1..(Len(d) - 1) :
                      /\ Find(t, d[k].mask, 1) # 0
                      /\ Find(t, d[k].mask, 1) < Find(t, d[k + 1].mask, 1)

\* a call has masked three spans
C3_Witness == pc = "math_masked" /\ Len(math_mask_dict) >= 3

\* ---- C4 -------------------------------------------------------------------

Failed(k) == net[k].status # 200

\* C4: a backend failure is fatal and leaves no output.  A status other than
\* 200 from translate or from an image fetch ends the run at once in the
\* aborted state: it is the last request issued, no later stage runs, the
\* clipboard stays empty and no final buffer is written, whatever was fetched
\* and uploaded before.
C4_AbortLeavesNoOutput ==
    /\ (\E k \in 1..Len(net) : Failed(k)) <=> pc = "aborted"
    /\ pc = "aborted" =>
          /\ Failed(Len(net))
          /\ \A k \in 1..(Len(net) - 1) : ~Failed(k)
          /\ clipboard = <<>>
          /\ \A k \in 1..Len(log) : log[k].file # "log/unmasked.txt"
          /\ net[Len(net)].op = "translate" =>
                 trace = <<"extract_deco", "mask_ref", "mask_math">>
          /\ net[Len(net)].op = "get" =>
                 trace = <<"extract_deco", "mask_ref", "mask_math", "translate",
                           "unmask_ref", "escape_brackets", "unmask_math",
                           "replace_headings">>

\* an image fetch failed after an earlier image was fetched and uploaded
C4_Witness ==
    /\ pc = "aborted"
    /\ net[Len(net)].op = "get"
    /\ \E k \in 1..Len(net) : net[k].op = "upload"

\* ---- C5 -------------------------------------------------------------------

\* the emphasis level of a heading of k marks: max(1, 4 - k)
Stars(k) == IF k = 1 THEN 3 ELSE IF k = 2 THEN 2 ELSE 1

\* a line without its line break: rewritten when it is an optional numeric
\* prefix, one # or more, blanks and a title
RewriteLine(line) ==
    LET p == RunEnd(line, DigitDot, 1)
        h == RunEnd(line, Hash, p + 1)
        w == RunEnd(line, {" ", "\t"}, h + 1)
    IN IF h >= p + 1 /\ w >= h + 1 /\ w < Len(line)
       THEN <<"[">> \o [k \in 1..Stars(h - p) |-> "*"] \o <<" ">>
                \o SubSeq(line, w + 1, Len(line)) \o <<"]">>
       ELSE line

\* every line from pos on rewritten, the line breaks kept
RECURSIVE RewriteLines(_, _)
RewriteLines(s, pos) ==
    LET e == LineEnd(s, pos)
    IN IF pos > Len(s) THEN <<>>
       ELSE RewriteLine(SubSeq(s, pos, e))
                \o (IF e < Len(s) THEN <<NL>> ELSE <<>>)
                \o RewriteLines(s, e + 2)

\* C5: replace_headings rewrites every heading line of the buffer, wherever it
\* stands, to [ + max(1, 4 - k) stars + blank + title + ], the numeric prefix
\* removed, and leaves the other lines and all line breaks unchanged.
C5_EveryHeadingRewritten == pc = "head_replaced" => t = RewriteLines(src, 1)

\* ---- C6 -------------------------------------------------------------------

\* whether a heading line starts at i: a line start followed by # marks and blanks
HeadingLineAt(s, i) ==
    /\ i = 1 \/ s[i - 1] = NL
    /\ RunEnd(s, Hash, i) >= i
    /\ RunEnd(s, Space, RunEnd(s, Hash, i) + 1) >= RunEnd(s, Hash, i) + 1

\* the start of the first heading line at or after pos, or the end of the text
NextHeadingLine(s, pos) ==
    IF \E i \in pos..Len(s) : HeadingLineAt(s, i)
    THEN CHOOSE i \in pos..Len(s) :
             HeadingLineAt(s, i) /\ \A j \in pos..(i - 1) : ~HeadingLineAt(s, j)
    ELSE Len(s) + 1

\* C6: when the text has a References heading, mask_ref keeps the heading and
\* replaces exactly the body by #REF#, the body running from right after the
\* first References heading match to the start of the next heading line, or
\* to the end of the text; the map is the single entry #REF# -> body.
C6_RefSectionMasked ==
    (pc = "ref_masked" /\ ref_search(src) # 0) =>
        LET e == ref_heading_end(src, ref_search(src))
            stop == NextHeadingLine(src, e + 1)
        IN /\ t = SubSeq(src, 1, e) \o REF \o From(src, stop)
           /\ ref_mask_dict = <<[mask |-> REF, value |-> SubSeq(src, e + 1, stop - 1)]>>

\* ---- C7 -------------------------------------------------------------------

NoDollar(s) == \A k \in 1..Len(s) : s[k] # DOLLAR

\* $body$ with a non-empty body free of $
IsInlineSpan(p) ==
    /\ Len(p) >= 3
    /\ p[1] = DOLLAR /\ p[Len(p)] = DOLLAR
    /\ NoDollar(SubSeq(p, 2, Len(p) - 1))

\* $$body$$ with a non-empty body free of $
IsBlockSpan(p) ==
    /\ Len(p) >= 5
    /\ p[1] = DOLLAR /\ p[2] = DOLLAR /\ p[Len(p) - 1] = DOLLAR /\ p[Len(p)] = DOLLAR
    /\ NoDollar(SubSeq(p, 3, Len(p) - 2))

IsSpan(p) == IsInlineSpan(p) \/ IsBlockSpan(p)

SpanBody(p) ==
    IF IsBlockSpan(p) THEN SubSeq(p, 3, Len(p) - 2) ELSE SubSeq(p, 2, Len(p) - 1)

\* the text is made of well-delimited spans and of pieces free of $
WellDelimited(ps) == \A k \in 1..Len(ps) : IsSpan(ps[k]) \/ NoDollar(ps[k])

\* C7: mask_math masks every math span.  For a text whose $ form N
\* well-delimited spans, directly adjacent ones included, the masked buffer
\* holds no $, the map has N entries and the k-th holds the body of the k-th span.
C7_EverySpanMasked ==
    (pc = "math_masked" /\ WellDelimited(parts)) =>
        LET spans == SelectSeq(parts, IsSpan)
        IN /\ NoDollar(t)
           /\ Len(math_mask_dict) = Len(spans)
           /\ \A k \in 1..Len(spans) :
                  math_mask_dict[k].value = math_template(newline_sub(SpanBody(spans[k])))

\* ---- C8 -------------------------------------------------------------------

\* main has run to its end on TitleDoc, translate having returned its input
TitleDocDone == pc = "done" /\ src = TitleDoc /\ received = sent

\* C8 as stated: the final buffer reproduces the math source and the reference
\* text "[1] Foo, 2020." byte for byte, holds no EQ001 and no #REF#, and has
\* "# Title" rewritten to "[*** Title]".
C8_EndToEnd ==
    TitleDocDone =>
        /\ Contains(t, <<"x", "+", "y">>)
        /\ Contains(t, <<"[", "1", "]", " ", "F", "o", "o", ",", " ", "2", "0", "2", "0", ".">>)
        /\ ~Contains(t, eq_mask(1))
        /\ ~Contains(t, REF)
        /\ At(t, 1, <<"[", "*", "*", "*", " ", "T", "i", "t", "l", "e", "]">>)

\* C8 as amended: the final buffer reproduces the math source inside its
\* template "[$ x+y ]" and the reference text with its citation marker escaped,
\* BACKTICK [1] BACKTICK Foo, 2020., holds no EQ001 and no #REF#, and has
\* "# Title" rewritten to "[*** Title]".
C8_EndToEndEscaped ==
    TitleDocDone =>
        /\ Contains(t, <<"[", "$", " ", "x", "+", "y", " ", "]">>)
        /\ Contains(t, <<BACKTICK, "[", "1", "]", BACKTICK, " ", "F", "o", "o", ",", " ", "2", "0", "2", "0", ".">>)
        /\ ~Contains(t, eq_mask(1))
        /\ ~Contains(t, REF)
        /\ At(t, 1, <<"[", "*", "*", "*", " ", "T", "i", "t", "l", "e", "]">>)

C8_Witness == TitleDocDone /\ clipboard = <<t>>

\* ---- C9 -------------------------------------------------------------------

PipelineOrder == <<"extract_deco", "mask_ref", "mask_math", "translate", "unmask_ref",
                   "escape_brackets", "unmask_math", "replace_headings", "replace_images">>

\* C9: in every run of main the stages execute at most once each and strictly
\* in the pipeline order, each starting when its predecessor has returned; no
\* unmasker runs before translate has returned, escape_brackets runs after
\* unmask_ref and before unmask_math, and the maps handed to the unmaskers are
\* the ones the maskers of this run produced.
C9_StageOrder ==
    /\ \A k \in 1..Len(trace) : k <= Len(PipelineOrder) => trace[k] = PipelineOrder[k]
    /\ Len(trace) <= Len(PipelineOrder) + 1
    /\ (pc # "aborted" /\ Len(trace) < Len(PipelineOrder)) => pc = PipelineOrder[Len(trace) + 1]
    /\ passed.ref # <<>> =>
          /\ received # <<>>
          /\ passed.ref[1] = mask_ref(extract_deco(src)).dict
    /\ passed.math # <<>> =>
          /\ received # <<>>
          /\ passed.ref # <<>>
          /\ passed.math[1] = mask_math(mask_ref(extract_deco(src)).masked).dict

\* a run has completed every stage with both maps in use
C9_Witness ==
    /\ pc = "done"
    /\ trace = PipelineOrder \o <<"copy">>
    /\ passed.ref # <<<<>>>>
    /\ passed.math # <<<<>>>>

\* ---- C10 ------------------------------------------------------------------

\* no EQ followed by a digit
NoEqDigit(s) ==
    \A k \in 1..(Len(s) - 2) : ~(s[k] = "E" /\ s[k + 1] = "Q" /\ s[k + 2] \in Digits)

\* the template of the span s[from..to]: its content with every newline
\* replaced by a space, between "[$ " and " ]"
TemplateOf(s, from, to) ==
    <<"[", "$", " ">>
        \o [k \in 1..(to - from + 1) |-> IF s[from + k - 1] = NL THEN " " ELSE s[from + k - 1]]
        \o <<" ", "]">>

\* one more span rendered in place: st is [pos, out, templates, done]
RenderStep(s, st) ==
    LET i == math_next(s, st.pos)
        m == math_match(s, i)
    IN IF st.done THEN st
       ELSE IF i = 0
       THEN [st EXCEPT !.out = st.out \o From(s, st.pos), !.done = TRUE]
       ELSE [pos |-> m.last + 1,
             out |-> st.out \o SubSeq(s, st.pos, i - 1) \o TemplateOf(s, m.from, m.to),
             templates |-> Append(st.templates, TemplateOf(s, m.from, m.to)),
             done |-> FALSE]

RECURSIVE RenderLoop(_, _, _)
RenderLoop(s, st, n) ==
    IF n = 0 THEN st
    ELSE IF n = 1 THEN RenderStep(s, st)
    ELSE LET half == RenderLoop(s, st, n \div 2)
         IN IF half.done THEN half ELSE RenderLoop(s, half, n - (n \div 2))

\* s with each matched span replaced by its own template, and the templates
Rendered(s) ==
    RenderLoop(s, [pos |-> 1, out |-> <<>>, templates |-> <<>>, done |-> FALSE],
               (Len(s) \div 2) + 1)

\* C10: for a text without EQ followed by digits, every value of the map is the
\* template of its span, and unmask_math gives the text with each matched span
\* replaced by its own template, in order, the rest unchanged and no key left.
C10_SpansRendered ==
    (pc = "math_unmasked" /\ NoEqDigit(src)) =>
        /\ t = Rendered(src).out
        /\ [k \in 1..Len(math_mask_dict) |-> math_mask_dict[k].value] = Rendered(src).templates
        /\ \A k \in 1..Len(math_mask_dict) : ~Contains(t, math_mask_dict[k].mask)

=============================================================================
